---- MODULE Spec2Model ----
(***************************************************************************)
(* The chat screen (component Chat): its React state, the mount effect     *)
(* that sends the initial query, the input's onChange, the form's          *)
(* handleSubmit, and the two continuations of each api.generate call       *)
(* (fulfilled, rejected).                                                  *)
(*                                                                         *)
(* A JavaScript string is a sequence of one-character strings; a value     *)
(* that may be null or undefined is a set with at most one element         *)
(* (Null == {}); an optional field is such a set too.                      *)
(***************************************************************************)
EXTENDS Integers, Sequences, FiniteSets

\* ------------------------------------------------------------------ bounds
\* Number of api.generate calls in one behaviour.
MaxCalls == 2
\* Milliseconds the clock may advance past StartClock.
MaxElapsed == 1
\* First reading of Date.now(); 8 so that readings cross from one digit to two.
StartClock == 8

\* ----------------------------------------------------------------- strings
Whitespace == {" "}

Null == {}
Some(v) == {v}
Get(o) == CHOOSE v \in o : TRUE

RECURSIVE TrimStart(_)
TrimStart(s) ==
  IF s # <<>> /\ Head(s) \in Whitespace THEN TrimStart(Tail(s)) ELSE s

RECURSIVE TrimEnd(_)
TrimEnd(s) ==
  IF s # <<>> /\ s[Len(s)] \in Whitespace THEN TrimEnd(SubSeq(s, 1, Len(s) - 1)) ELSE s

\* String.prototype.trim
Trim(s) == TrimEnd(TrimStart(s))

Digit(d) == CASE d = 0 -> "0" [] d = 1 -> "1" [] d = 2 -> "2" [] d = 3 -> "3"
              [] d = 4 -> "4" [] d = 5 -> "5" [] d = 6 -> "6" [] d = 7 -> "7"
              [] d = 8 -> "8" [] d = 9 -> "9"

\* Number.prototype.toString and the template literal's ${number}, for a natural.
RECURSIVE toString(_)
toString(n) ==
  IF n < 10 THEN <<Digit(n)>> ELSE Append(toString(n \div 10), Digit(n % 10))

\* The falsy test of `x || y` and of `if (x)` on an optional string.
Truthy(o) == o # Null /\ Get(o) # <<>>

\* ------------------------------------------------------ string literals
StrUnexpected == <<"A","n"," ","u","n","e","x","p","e","c","t","e","d"," ",
                   "e","r","r","o","r"," ","o","c","c","u","r","r","e","d">>
StrAPIError == <<"A","P","I"," ","E","r","r","o","r",":"," ">>
StrNetworkError == <<"N","e","t","w","o","r","k"," ","E","r","r","o","r",":"," ">>
StrSource == <<"S","o","u","r","c","e"," ">>
StrSite == <<"A","s","i","a","N","x","t">>

\* -------------------------------------------------------------- inputs
\* What the user can type: nothing, whitespace only, a query, a query after a space.
InputValues == {<<>>, <<" ">>, <<" ", " ">>, <<"a">>, <<" ", "a">>}

\* location.state?.initialQuery: undefined, the empty string, or a query.
InitialQueries == {Null, Some(<<>>), Some(<<"a">>)}

\* Citations the backend can return: title is optional.
Cite(n, t, u) == [number |-> n, title |-> t, url |-> u]

\* A fulfilled api.generate: { conversation_id, answer, citations }.
Response(c, a, cs) == [conversation_id |-> c, answer |-> a, citations |-> cs]
Responses ==
  { Response("c1", <<"x">>, <<>>),
    Response("c2", <<"x">>, <<Cite(1, Null, <<"u">>)>>),
    Response("c1", <<"y">>, <<Cite(2, Some(<<"T">>), <<"v">>), Cite(10, Some(<<>>), <<"u">>)>>) }

\* What api.generate may throw: an APIError, a NetworkError, another Error
\* (each carrying a message), or a value that is no Error at all.
ErrorMessages == {<<"r">>}
Thrown ==
  [class : {"APIError", "NetworkError", "Error"}, message : ErrorMessages]
    \cup {[class |-> "NonError", message |-> <<>>]}

\* ---------------------------------------------------------------- state
VARIABLES
  messages,        \* useState<Message[]>([])
  inputValue,      \* useState('')
  conversationId,  \* useState<string | null>(null)
  loading,         \* useState(false)
  error,           \* useState<string | null>(null)
  location,        \* location.state?.initialQuery
  effect,          \* "pending" when the [location.state] effect has yet to run
  calls,           \* how many api.generate calls were made
  inflight,        \* the calls whose promise has not settled yet
  clock,           \* the last reading of Date.now()
  last             \* the step just taken and what it was given

vars == <<messages, inputValue, conversationId, loading, error, location,
          effect, calls, inflight, clock, last>>

Step(name, call, fulfilled, rejected) ==
  [step |-> name, call |-> call, value |-> fulfilled, reason |-> rejected]

\* ------------------------------------------------------------- messages
Message(id, type, content, sources) ==
  [id |-> id, type |-> type, content |-> content, sources |-> sources]

\* toSource with the title taken as it comes, without the "Source {number}" fallback.
toSourceNoFallback(citation) ==
  [ title  |-> IF citation.title # Null THEN Get(citation.title) ELSE <<>>,
    url    |-> citation.url,
    site   |-> StrSite,
    number |-> citation.number ]

\* response.citations.map(citation => ({ title, url, site, number }))
toSource(citation) ==
  [ title  |-> IF Truthy(citation.title) THEN Get(citation.title)
               ELSE StrSource \o toString(citation.number),
    url    |-> citation.url,
    site   |-> StrSite,
    number |-> citation.number ]

mapSources(citations) == [i \in 1..Len(citations) |-> toSource(citations[i])]

userMessage(now, query) == Message(toString(now), "user", query, Null)

aiMessage(now, response) ==
  Message(toString(now + 1), "assistant", response.answer,
          Some(mapSources(response.citations)))

errorMsg(now, errorMessage) == Message(toString(now), "error", errorMessage, Null)

\* handleError's classification; it also calls setError(errorMessage).
handleError(thrown) ==
  CASE thrown.class = "APIError"     -> StrAPIError \o thrown.message
    [] thrown.class = "NetworkError" -> StrNetworkError \o thrown.message
    [] thrown.class = "Error"        -> thrown.message
    [] OTHER                         -> StrUnexpected

\* -------------------------------------------------------------- actions
Init ==
  /\ messages = <<>>
  /\ inputValue = <<>>
  /\ conversationId = Null
  /\ loading = FALSE
  /\ error = Null
  /\ location \in InitialQueries
  /\ effect = "pending"
  /\ calls = 0
  /\ inflight = {}
  /\ clock = StartClock
  /\ last = Step("mount", Null, Null, Null)

Call(n, handler, query, convId) ==
  [n |-> n, handler |-> handler, query |-> query, conversationId |-> convId]

\* api.generate(request, conversationId): the call is recorded and its promise pends.
Generate(handler, query, convId) ==
  /\ calls' = calls + 1
  /\ inflight' = inflight \cup {Call(calls + 1, handler, query, convId)}

\* handleInitialQuery up to its await.
handleInitialQuery(query) ==
  /\ loading' = TRUE
  /\ error' = Null
  /\ Generate("handleInitialQuery", query, Null)

\* The effect with dependency [location.state]: runs after the mount and after
\* each change of location.state. React flushes a pending passive effect before
\* it handles the next event, and handleInitialQuery reads no state, so the other
\* steps wait for it.
useEffectInitialQuery ==
  /\ effect = "pending"
  /\ effect' = "idle"
  /\ IF Truthy(location)
       THEN /\ handleInitialQuery(Get(location))
            /\ last' = Step("useEffect", Null, Null, Null)
       ELSE /\ UNCHANGED <<loading, error, calls, inflight>>
            /\ last' = Step("useEffect", Null, Null, Null)
  /\ UNCHANGED <<messages, inputValue, conversationId, location, clock>>

\* A navigation to this route with a new state object while the screen is mounted.
Navigate(q) ==
  /\ effect = "idle"
  /\ Truthy(q) => calls < MaxCalls
  /\ location' = q
  /\ effect' = "pending"
  /\ last' = Step("navigate", Null, Null, Null)
  /\ UNCHANGED <<messages, inputValue, conversationId, loading, error, calls,
                 inflight, clock>>

\* The input's onChange; the input is disabled while loading.
onChange(value) ==
  /\ effect = "idle"
  /\ ~loading
  /\ inputValue' = value
  /\ last' = Step("onChange", Null, Null, Null)
  /\ UNCHANGED <<messages, conversationId, loading, error, location,
                 effect, calls, inflight, clock>>

\* The guard without its test of the loading flag.
submitIgnoredNoLoadingTest == Trim(inputValue) = <<>>

\* The guard of handleSubmit's early return.
submitIgnored == Trim(inputValue) = <<>> \/ loading

\* handleSubmit up to its await (or its early return).
handleSubmit ==
  /\ effect = "idle"
  /\ IF submitIgnored
       THEN /\ last' = Step("handleSubmit:return", Null, Null, Null)
            /\ UNCHANGED <<loading, error, calls, inflight>>
       ELSE /\ calls < MaxCalls
            /\ loading' = TRUE
            /\ error' = Null
            /\ Generate("handleSubmit", inputValue, conversationId)
            /\ last' = Step("handleSubmit:await", Null, Null, Null)
  /\ UNCHANGED <<messages, inputValue, conversationId, location, effect,
                 clock>>

\* Date.now(): a reading of a clock that never runs backwards.
Readings(from) == from..(StartClock + MaxElapsed)
\* The second Date.now() of one continuation: the same millisecond or the next.
NextReadings(from) == {t \in Readings(from) : t <= from + 1}

\* The promise of a call settles and the handler that awaits it resumes.
Settle(call, name, fulfilled, rejected, now) ==
  /\ inflight' = inflight \ {call}
  /\ clock' = now
  /\ last' = Step(name, Some(call), fulfilled, rejected)
  /\ UNCHANGED <<location, effect, calls>>

\* handleInitialQuery after its await, the try block, then finally.
handleInitialQueryFulfilled(call, response, now1, now2) ==
  /\ effect = "idle"
  /\ call \in inflight
  /\ call.handler = "handleInitialQuery"
  /\ conversationId' = Some(response.conversation_id)
  /\ messages' = <<userMessage(now1, call.query), aiMessage(now2, response)>>
  /\ loading' = FALSE
  /\ UNCHANGED <<inputValue, error>>
  /\ Settle(call, "fulfilled", Some(response), Null, now2)

\* handleInitialQuery after its await, the catch block, then finally.
handleInitialQueryRejected(call, thrown, now) ==
  /\ effect = "idle"
  /\ call \in inflight
  /\ call.handler = "handleInitialQuery"
  /\ error' = Some(handleError(thrown))
  /\ messages' = <<errorMsg(now, handleError(thrown))>>
  /\ loading' = FALSE
  /\ UNCHANGED <<inputValue, conversationId>>
  /\ Settle(call, "rejected", Null, Some(thrown), now)

\* handleSubmit after its await, the try block, then finally. inputValue and
\* conversationId in the closure are those of the render that submitted.
handleSubmitFulfilled(call, response, now1, now2) ==
  /\ effect = "idle"
  /\ call \in inflight
  /\ call.handler = "handleSubmit"
  /\ messages' = messages \o <<userMessage(now1, call.query), aiMessage(now2, response)>>
  /\ inputValue' = <<>>
  /\ conversationId' = Some(response.conversation_id)
  /\ loading' = FALSE
  /\ UNCHANGED error
  /\ Settle(call, "fulfilled", Some(response), Null, now2)

\* handleSubmit after its await, the catch block, then finally.
handleSubmitRejected(call, thrown, now) ==
  /\ effect = "idle"
  /\ call \in inflight
  /\ call.handler = "handleSubmit"
  /\ error' = Some(handleError(thrown))
  /\ messages' = Append(messages, errorMsg(now, handleError(thrown)))
  /\ loading' = FALSE
  /\ UNCHANGED <<inputValue, conversationId>>
  /\ Settle(call, "rejected", Null, Some(thrown), now)

\* api.generate answers a pending call of handleInitialQuery.
InitialQueryFulfilled ==
  \E call \in inflight, response \in Responses :
    \E now1 \in Readings(clock) : \E now2 \in NextReadings(now1) :
      handleInitialQueryFulfilled(call, response, now1, now2)

\* api.generate throws for a pending call of handleInitialQuery.
InitialQueryRejected ==
  \E call \in inflight, thrown \in Thrown : \E now \in Readings(clock) :
    handleInitialQueryRejected(call, thrown, now)

\* api.generate answers a pending call of handleSubmit.
SubmitFulfilled ==
  \E call \in inflight, response \in Responses :
    \E now1 \in Readings(clock) : \E now2 \in NextReadings(now1) :
      handleSubmitFulfilled(call, response, now1, now2)

\* api.generate throws for a pending call of handleSubmit.
SubmitRejected ==
  \E call \in inflight, thrown \in Thrown : \E now \in Readings(clock) :
    handleSubmitRejected(call, thrown, now)

Next ==
  \/ useEffectInitialQuery
  \/ \E q \in InitialQueries : Navigate(q)
  \/ \E value \in InputValues : onChange(value)
  \/ handleSubmit
  \/ InitialQueryFulfilled
  \/ InitialQueryRejected
  \/ SubmitFulfilled
  \/ SubmitRejected

Spec == Init /\ [][Next]_vars

\* The screen mounted with an initial query in its navigation state.
InitWithInitialQuery == Init /\ Truthy(location)
SpecInitialQuery == InitWithInitialQuery /\ [][Next]_vars

\* ------------------------------------------------------------ properties
\* The calls a step issues, and the calls whose promise it settles.
Issued == inflight' \ inflight
Settled == inflight \ inflight'

IsBlank(s) == \A k \in 1..Len(s) : s[k] \in Whitespace
OfType(type) == SelectSeq(messages, LAMBDA m : m.type = type)
OfTypeNext(type) == SelectSeq(messages', LAMBDA m : m.type = type)
IsPrefix(s, t) == Len(s) <= Len(t) /\ SubSeq(t, 1, Len(s)) = s

\* C1: in every reachable state at most one generate request is in flight.
C1_AtMostOneInFlight == Cardinality(inflight) <= 1

\* C2: a handleSubmit with a blank or whitespace-only input, or with the loading
\* flag set, issues no generate call and changes neither the transcript, the
\* input, the conversation identifier, the loading flag nor the error field.
C2_IgnoredSubmitChangesNothing ==
  [][ ( /\ last'.step \in {"handleSubmit:return", "handleSubmit:await"}
        /\ (IsBlank(inputValue) \/ loading) )
      => /\ Issued = {}
         /\ calls' = calls
         /\ UNCHANGED <<messages, inputValue, conversationId, loading, error>> ]_vars

\* A submission was just ignored that carried a query, because a request is pending.
C2_Witness ==
  /\ last.step = "handleSubmit:return"
  /\ loading
  /\ inflight # {}
  /\ ~IsBlank(inputValue)

\* C3: every accepted manual submission appends exactly one user message with
\* the submitted text and clears the input, whatever the outcome of its request:
\* stated at the step that settles the submission's request.
C3_AcceptedSubmitAppendsUserMessage ==
  [][ \A call \in Settled :
        call.handler = "handleSubmit"
        => /\ inputValue' = <<>>
           /\ Len(OfTypeNext("user")) = Len(OfType("user")) + 1
           /\ IsPrefix(OfType("user"), OfTypeNext("user"))
           /\ OfTypeNext("user")[Len(OfTypeNext("user"))].content = call.query ]_vars

\* The text of a citation number, and the message a response must produce.
Decimal(n) == CASE n = 1 -> <<"1">> [] n = 2 -> <<"2">> [] n = 10 -> <<"1", "0">>

ExpectedTitle(citation) ==
  IF citation.title \in {Null, Some(<<>>)}
    THEN <<"S","o","u","r","c","e"," ">> \o Decimal(citation.number)
    ELSE Get(citation.title)

IsAnswerTo(m, response) ==
  /\ m.type = "assistant"
  /\ m.content = response.answer
  /\ m.sources # Null
  /\ LET sources == Get(m.sources)
         citations == response.citations
     IN  /\ Len(sources) = Len(citations)
         /\ \A k \in 1..Len(citations) :
              /\ sources[k].number = citations[k].number
              /\ sources[k].url = citations[k].url
              /\ sources[k].title = ExpectedTitle(citations[k])

\* C4: when the request of an accepted submission succeeds, the transcript gains
\* the submission's user message and, directly after it, exactly one assistant
\* message whose content is the response's answer and whose sources are the
\* citations in order, each with the citation's number and url and with the
\* citation's title, or "Source {number}" when the citation has no title (none, or
\* an empty one). The assistant message of an initial query is built the same way.
C4_SuccessAppendsAssistantMessage ==
  [][ last'.step = "fulfilled" /\ Settled # {}
      => LET call == Get(last'.call)
             response == Get(last'.value)
             n == Len(messages')
         IN  /\ n >= 2
             /\ messages'[n - 1].type = "user"
             /\ messages'[n - 1].content = call.query
             /\ IsAnswerTo(messages'[n], response)
             /\ call.handler = "handleSubmit"
                  => /\ n = Len(messages) + 2
                     /\ IsPrefix(messages, messages')
                     /\ Len(OfTypeNext("assistant")) = Len(OfType("assistant")) + 1 ]_vars

\* A submission has just succeeded with two citations, the second without a
\* title, after an earlier exchange.
C4_Witness ==
  /\ last.step = "fulfilled"
  /\ Get(last.call).handler = "handleSubmit"
  /\ Len(Get(last.value).citations) = 2
  /\ Len(messages) = 4
  /\ messages[4].type = "assistant"
  /\ Len(Get(messages[4].sources)) = 2
  /\ Get(messages[4].sources)[2].title = <<"S","o","u","r","c","e"," ","1","0">>

\* The text an error must be shown as.
ExpectedErrorText(thrown) ==
  IF thrown.class = "APIError"
    THEN <<"A","P","I"," ","E","r","r","o","r",":"," ">> \o thrown.message
  ELSE IF thrown.class = "NetworkError"
    THEN <<"N","e","t","w","o","r","k"," ","E","r","r","o","r",":"," ">> \o thrown.message
  ELSE IF thrown.class = "Error"
    THEN thrown.message
  ELSE <<"A","n"," ","u","n","e","x","p","e","c","t","e","d"," ",
         "e","r","r","o","r"," ","o","c","c","u","r","r","e","d">>

\* C5: when a generate request fails, for the manual submission or the initial
\* query, exactly one error-role message is appended to the transcript and no
\* user or assistant message is added; its content is "API Error: m" for an
\* application error with message m, "Network Error: m" for a network error, m
\* for any other Error, and "An unexpected error occurred" for anything else.
C5_FailureAppendsOneErrorMessage ==
  [][ last'.step = "rejected" /\ Settled # {}
      => /\ Len(messages') = Len(messages) + 1
         /\ IsPrefix(messages, messages')
         /\ messages'[Len(messages')].type = "error"
         /\ messages'[Len(messages')].content = ExpectedErrorText(Get(last'.reason)) ]_vars

\* C6: every generate request carries the conversation identifier stored when it
\* is issued, and after each successful response the stored identifier is the
\* conversation_id of that response.
C6_RequestCarriesStoredConversationId ==
  [][ /\ \A call \in Issued : call.conversationId = conversationId
      /\ last'.step = "fulfilled" /\ Settled # {}
           => conversationId' = Some(Get(last'.value).conversation_id) ]_vars

\* C7: the loading flag is true exactly while a request is outstanding.
C7_LoadingIffRequestOutstanding == loading <=> inflight # {}

\* C8: a screen that mounts with an initial query sends it automatically exactly
\* once for the life of the screen: the effect sends it on mount, no later step
\* sends it again, and on success the transcript is the user message with the
\* query followed by the assistant message with the answer. (The case of a mount
\* without an initial query is the other initial states of Spec.)
C8_InitialQuerySentExactlyOnce ==
  [][ /\ last.step = "mount"
           => Issued = {Call(1, "handleInitialQuery", Get(location), Null)}
      /\ last.step # "mount"
           => \A call \in Issued : call.handler # "handleInitialQuery"
      /\ ( /\ last'.step = "fulfilled"
           /\ Settled # {}
           /\ Get(last'.call).handler = "handleInitialQuery" )
           => /\ Len(messages') = 2
              /\ messages'[1].type = "user"
              /\ messages'[1].content = Get(last'.call).query
              /\ messages'[2].type = "assistant"
              /\ messages'[2].content = Get(last'.value).answer ]_vars

\* C9: all messages of the transcript have pairwise distinct identifiers.
C9_MessageIdsDistinct ==
  \A j, k \in 1..Len(messages) : j # k => messages[j].id # messages[k].id

\* C10: the transcript is append-only: every step keeps the messages it finds,
\* unchanged and in order, and only adds messages at the end.
C10_TranscriptAppendOnly ==
  [][ IsPrefix(messages, messages') ]_vars
====
